---- MODULE Spec2Model ----
(***************************************************************************)
(* Model of scripts/do_release.py: QC tables are read and validated, the   *)
(* rows that fail QC are resolved to directories and files, and three      *)
(* release branches are created, pruned, committed, tagged and pushed in   *)
(* each of the two derivative datasets (FreeSurfer, then CPAC/BOLD).       *)
(*                                                                         *)
(* Strings are TLA+ strings (concatenation, Len and SubSeq are computed).  *)
(* A path is a tuple of path components; str(path) is computed by PathStr. *)
(* A working tree is the set of tracked files; a directory exists exactly  *)
(* when some tracked file lies beneath it.                                 *)
(***************************************************************************)
EXTENDS Integers, Sequences, FiniteSets, TLC

(***************************************************************************)
(* Bounds of the model                                                     *)
(***************************************************************************)
MaxT1Rows == 2
MaxKilled == 1
MaxLen == 4
MaxCap == 3

(***************************************************************************)
(* String helpers                                                          *)
(***************************************************************************)
StartsWith(s, p) == Len(s) >= Len(p) /\ SubSeq(s, 1, Len(p)) = p

\* fnmatch with the single wildcard "*" (the patterns built by
\* delete_bold_files contain no other metacharacter)
RECURSIVE FnMatch(_, _)
FnMatch(name, pat) ==
    IF pat = "" THEN name = ""
    ELSE IF Head(pat) = "*"
         THEN \E k \in 0..Len(name) :
                 FnMatch(SubSeq(name, k + 1, Len(name)), Tail(pat))
         ELSE /\ name # ""
              /\ Head(name) = Head(pat)
              /\ FnMatch(Tail(name), Tail(pat))

\* str(Path): components joined by "/"
RECURSIVE PathStr(_)
PathStr(p) == IF p = <<>> THEN "" ELSE "/" \o Head(p) \o PathStr(Tail(p))

IsPrefix(p, q) == Len(p) <= Len(q) /\ SubSeq(q, 1, Len(p)) = p

Range(s) == {s[i] : i \in 1..Len(s)}

RECURSIVE Concat(_)
Concat(ss) == IF ss = <<>> THEN <<>> ELSE Head(ss) \o Concat(Tail(ss))

(***************************************************************************)
(* QC tables.  A tsv file is [cols, rows]: the set of column names and the *)
(* sequence of rows, each a function from cols to the raw cell text        *)
(* (fmriExclude cells are numbers).                                        *)
(***************************************************************************)
NO_SES_STUDIES == [CCNP |-> "1", PNC |-> "PNC1"]

Studies == {"CCNP", "BHRC", "NKI", "HBN", "PNC"}

\* the missing value of pandas; str(nan) is "nan", and no string cell can
\* hold the text "nan" because read_csv turns that text into the missing value
NaN == "nan"

\* keep_default_na=True: these cell texts are read as missing
NaValues == {"", "NA", "N/A", "NaN", "nan", "null", "NULL", "n/a", "<NA>", "#N/A"}

ReadCell(col, raw) == IF col = "fmriExclude" THEN raw
                      ELSE IF raw \in NaValues THEN NaN ELSE raw

\* pd.read_csv(tsv_file, sep="\t", dtype=QC_DTYPES, keep_default_na=True)
ReadCsv(tsv) ==
    [cols |-> tsv.cols,
     rows |-> [i \in 1..Len(tsv.rows) |->
                  [c \in tsv.cols |-> ReadCell(c, tsv.rows[i][c])]]]

\* df[col].str.startswith(prefix).any(): missing values are skipped
AnyStartsWith(df, col, prefix) ==
    \E i \in 1..Len(df.rows) :
        df.rows[i][col] # NaN /\ StartsWith(df.rows[i][col], prefix)

\* the result of a call: exc = "none" and the value, or the exception raised
Raise(e) == [exc |-> e, df |-> [cols |-> {}, rows |-> <<>>]]
Return(df) == [exc |-> "none", df |-> df]

\* read_qc_tsv without the check of the task column
read_qc_tsv_no_task_check(tsv) ==
    LET df == ReadCsv(tsv) IN
    IF "participant_id" \notin df.cols THEN Raise("KeyError")
    ELSE IF AnyStartsWith(df, "participant_id", "sub-") THEN Raise("Exception")
    ELSE IF "session_id" \notin df.cols THEN Raise("KeyError")
    ELSE IF AnyStartsWith(df, "session_id", "ses-") THEN Raise("Exception")
    ELSE IF "acq" \in df.cols /\ AnyStartsWith(df, "acq", "acq-")
         THEN Raise("Exception")
    ELSE IF "run" \in df.cols /\ AnyStartsWith(df, "run", "run-")
         THEN Raise("Exception")
    ELSE Return(df)

\* read_qc_tsv with the check of the run column looking for "run_"
read_qc_tsv_wrong_run_prefix(tsv) ==
    LET df == ReadCsv(tsv) IN
    IF "participant_id" \notin df.cols THEN Raise("KeyError")
    ELSE IF AnyStartsWith(df, "participant_id", "sub-") THEN Raise("Exception")
    ELSE IF "session_id" \notin df.cols THEN Raise("KeyError")
    ELSE IF AnyStartsWith(df, "session_id", "ses-") THEN Raise("Exception")
    ELSE IF "acq" \in df.cols /\ AnyStartsWith(df, "acq", "acq-")
         THEN Raise("Exception")
    ELSE IF "run" \in df.cols /\ AnyStartsWith(df, "run", "run_")
         THEN Raise("Exception")
    ELSE IF "task" \in df.cols /\ AnyStartsWith(df, "task", "task-")
         THEN Raise("Exception")
    ELSE Return(df)

read_qc_tsv(tsv) ==
    LET df == ReadCsv(tsv) IN
    IF "participant_id" \notin df.cols THEN Raise("KeyError")
    ELSE IF AnyStartsWith(df, "participant_id", "sub-") THEN Raise("Exception")
    ELSE IF "session_id" \notin df.cols THEN Raise("KeyError")
    ELSE IF AnyStartsWith(df, "session_id", "ses-") THEN Raise("Exception")
    ELSE IF "acq" \in df.cols /\ AnyStartsWith(df, "acq", "acq-")
         THEN Raise("Exception")
    ELSE IF "run" \in df.cols /\ AnyStartsWith(df, "run", "run-")
         THEN Raise("Exception")
    ELSE IF "task" \in df.cols /\ AnyStartsWith(df, "task", "task-")
         THEN Raise("Exception")
    ELSE Return(df)

\* df[col] = value
SetColumn(df, col, value) ==
    [cols |-> df.cols \cup {col},
     rows |-> [i \in 1..Len(df.rows) |->
                  [c \in df.cols \cup {col} |->
                      IF c = col THEN value ELSE df.rows[i][c]]]]

IsArtifact(row) == row["qc_determination"] = "Artifact"
\* the Fail filter comparing with the wrong spelling
IsFail_lowercase(row) == row["qc_determination"] = "fail"

IsFail(row) == row["qc_determination"] = "Fail"
IsExcluded(row) == row["fmriExclude"] > 0

\* df[mask][columns]: the rows whose mask entry is true, projected, in
\* table order
RECURSIVE FilterRows(_, _, _)
FilterRows(rows, mask, columns) ==
    IF rows = <<>> THEN <<>>
    ELSE (IF Head(mask)
          THEN <<[c \in columns |-> Head(rows)[c]]>>
          ELSE <<>>) \o FilterRows(Tail(rows), Tail(mask), columns)

\* df[col] == value, df[col] > 0: one boolean per row
ArtifactMask(rows) == [i \in 1..Len(rows) |-> IsArtifact(rows[i])]
FailMask(rows) == [i \in 1..Len(rows) |-> IsFail(rows[i])]
ExcludedMask(rows) == [i \in 1..Len(rows) |-> IsExcluded(rows[i])]

T1Columns == {"participant_id", "session_id"}
BoldColumns == {"participant_id", "session_id", "task", "run", "acq"}

NoFrames == [exc |-> "none", t1_artifact |-> <<>>, t1_fail |-> <<>>,
             bold_fail |-> <<>>]

get_things_to_delete(study, t1_tsv, bold_tsv) ==
    LET r1 == read_qc_tsv(t1_tsv)
        t1_qc_df == IF study \in DOMAIN NO_SES_STUDIES
                    THEN SetColumn(r1.df, "session_id", NO_SES_STUDIES[study])
                    ELSE r1.df
        r2 == read_qc_tsv(bold_tsv)
        bold_qc_df == r2.df
    IN  IF r1.exc # "none" THEN [NoFrames EXCEPT !.exc = r1.exc]
        ELSE IF r2.exc # "none" THEN [NoFrames EXCEPT !.exc = r2.exc]
        ELSE IF "qc_determination" \notin t1_qc_df.cols
             THEN [NoFrames EXCEPT !.exc = "KeyError"]
        ELSE IF "fmriExclude" \notin bold_qc_df.cols
             THEN [NoFrames EXCEPT !.exc = "KeyError"]
        ELSE IF ~(BoldColumns \subseteq bold_qc_df.cols)
             THEN [NoFrames EXCEPT !.exc = "KeyError"]
        ELSE [exc |-> "none",
              t1_artifact |-> FilterRows(t1_qc_df.rows, ArtifactMask(t1_qc_df.rows),
                                         T1Columns),
              t1_fail |-> FilterRows(t1_qc_df.rows, FailMask(t1_qc_df.rows),
                                     T1Columns),
              bold_fail |-> FilterRows(bold_qc_df.rows,
                                       ExcludedMask(bold_qc_df.rows),
                                       BoldColumns)]

(***************************************************************************)
(* Batch splitting                                                         *)
(***************************************************************************)
\* np.array_split(a, n): the first Len(a) % n parts hold Len(a) \div n + 1
\* elements, the others Len(a) \div n
\* array_split that gives every part Len(a) \div n elements
array_split_even(a, n) ==
    LET q == Len(a) \div n
    IN  [i \in 1..n |-> SubSeq(a, (i - 1) * q + 1, i * q)]

array_split(a, n) ==
    LET q == Len(a) \div n
        r == Len(a) % n
        start(i) == (i - 1) * q + (IF i - 1 < r THEN i - 1 ELSE r)
        size(i) == q + (IF i <= r THEN 1 ELSE 0)
    IN  [i \in 1..n |-> SubSeq(a, start(i) + 1, start(i) + size(i))]

NChunks(n, batch_size) == n \div batch_size + 1

\* the argument lists of the `git rm -rf` calls of safe_delete_batch, in order
safe_delete_batch(files_to_delete, batch_size) ==
    IF files_to_delete = <<>> THEN <<>>
    ELSE array_split(files_to_delete,
                     NChunks(Len(files_to_delete), batch_size))

DefaultBatchSize == 5000

(***************************************************************************)
(* Files and directories                                                   *)
(***************************************************************************)
FsDir == <<"fs">>
BoldDir == <<"bold">>
DataDirs == {FsDir, BoldDir}

None == <<>>

\* Path.exists() in a working tree
Exists(tree, path) == \E f \in tree : IsPrefix(path, f)

\* every file and directory strictly below base_dir
Descendants(tree, base_dir) ==
    UNION {{SubSeq(f, 1, k) : k \in (Len(base_dir) + 1)..Len(f)} :
              f \in {g \in tree : IsPrefix(base_dir, g)}}

\* base_dir.rglob(search)
RGlob(tree, base_dir, search) ==
    {p \in Descendants(tree, base_dir) : FnMatch(p[Len(p)], search)}

\* the resolution without the HBN exception
base_dir_of_no_hbn_exception(study_name, data_dir, doing_bold, participant_id, session_id) ==
    LET inner_dir == IF ~doing_bold THEN "freesurfer" ELSE "cpac_RBCv0"
        participant_dir == "sub-" \o participant_id
    IN  IF study_name \in DOMAIN NO_SES_STUDIES
        THEN data_dir \o <<inner_dir, participant_dir>>
        ELSE IF ~doing_bold
             THEN data_dir \o <<inner_dir,
                                participant_dir \o "_ses-" \o session_id>>
        ELSE data_dir \o <<inner_dir, participant_dir, "ses-" \o session_id>>

\* lines 163-180: the directory a record resolves to
base_dir_of(study_name, data_dir, doing_bold, participant_id, session_id) ==
    LET inner_dir == IF ~doing_bold THEN "freesurfer" ELSE "cpac_RBCv0"
        participant_dir == "sub-" \o participant_id
    IN  IF study_name \in DOMAIN NO_SES_STUDIES
        THEN data_dir \o <<inner_dir, participant_dir>>
        ELSE IF ~doing_bold /\ study_name # "HBN"
             THEN data_dir \o <<inner_dir,
                                participant_dir \o "_ses-" \o session_id>>
        ELSE IF ~doing_bold /\ study_name = "HBN"
             THEN data_dir \o <<inner_dir, participant_dir>>
        ELSE data_dir \o <<inner_dir, participant_dir, "ses-" \o session_id>>

get_dir_to_delete(study_name, data_dir, doing_bold, tree, participant_id, session_id) ==
    LET base_dir == base_dir_of(study_name, data_dir, doing_bold,
                                participant_id, session_id)
    IN  IF ~Exists(tree, base_dir) THEN None ELSE base_dir

\* the loops of clean_dataset that collect str(base_dir) of existing dirs
RECURSIVE DirsToDelete(_, _, _, _, _)
DirsToDelete(study_name, data_dir, doing_bold, tree, rows) ==
    IF rows = <<>> THEN <<>>
    ELSE LET row == Head(rows)
             base_dir == get_dir_to_delete(study_name, data_dir, doing_bold,
                             tree, row["participant_id"], row["session_id"])
         IN  (IF base_dir # None THEN <<PathStr(base_dir)>> ELSE <<>>)
             \o DirsToDelete(study_name, data_dir, doing_bold, tree, Tail(rows))

\* a call of logging.warning: "missing <path>" (line 183) or "No files found
\* for <row>" (line 210); row is the position of the row in bold_fail, 0 for
\* the first kind, and path is "" for the second
Warn(kind, path, row) == [kind |-> kind, path |-> path, row |-> row]

\* line 183: the warnings the same loops log, one per row whose directory
\* does not exist
RECURSIVE MissingWarnings(_, _, _, _, _)
MissingWarnings(study_name, data_dir, doing_bold, tree, rows) ==
    IF rows = <<>> THEN <<>>
    ELSE LET row == Head(rows)
             base_dir == base_dir_of(study_name, data_dir, doing_bold,
                             row["participant_id"], row["session_id"])
         IN  (IF ~Exists(tree, base_dir)
              THEN <<Warn("missing", PathStr(base_dir), 0)>> ELSE <<>>)
             \o MissingWarnings(study_name, data_dir, doing_bold, tree,
                                Tail(rows))

check_globbable(attr) == attr # NaN /\ attr # ""

\* the pattern with the acq clause appended after the run clause
BoldSearch_acq_last(row) ==
    "*" \o (IF check_globbable(row["task"])
            THEN "task-" \o row["task"] \o "*" ELSE "")
        \o (IF check_globbable(row["run"])
            THEN "run-" \o row["run"] \o "*" ELSE "")
        \o (IF check_globbable(row["acq"])
            THEN "acq-" \o row["acq"] \o "*" ELSE "")

BoldSearch(row) ==
    "*" \o (IF check_globbable(row["task"])
            THEN "task-" \o row["task"] \o "*" ELSE "")
        \o (IF check_globbable(row["acq"])
            THEN "acq-" \o row["acq"] \o "*" ELSE "")
        \o (IF check_globbable(row["run"])
            THEN "run-" \o row["run"] \o "*" ELSE "")

BoldBaseDir(data_dir, row) ==
    data_dir \o <<"cpac_RBCv0", "sub-" \o row["participant_id"],
                  "ses-" \o row["session_id"]>>

\* the set of paths delete_bold_files returns (empty when it returns None)
delete_bold_files(data_dir, tree, row) ==
    IF ~Exists(tree, BoldBaseDir(data_dir, row)) THEN {}
    ELSE RGlob(tree, BoldBaseDir(data_dir, row), BoldSearch(row))

(***************************************************************************)
(* The version-control collaborator.  A repository is                      *)
(*   head      the checked-out branch                                      *)
(*   worktree  the files of the working tree (and index)                   *)
(*   refs      branch name -> committed tree                               *)
(*   base      branch name -> the ref that was checked out at its creation *)
(*   tags      tag name -> tree                                            *)
(*   remote    pushed ref name -> tree                                     *)
(***************************************************************************)
Removed(tree, paths) ==
    {f \in tree : \A i \in 1..Len(paths) :
        /\ PathStr(f) # paths[i]
        /\ ~StartsWith(PathStr(f), paths[i] \o "/")}

Matches(tree, pathspec) ==
    \E f \in tree : \/ PathStr(f) = pathspec
                    \/ StartsWith(PathStr(f), pathspec \o "/")

\* whether git can carry the command out on repository r
GitOk(r, argv) ==
    CASE argv[2] = "checkout" /\ argv[3] = "main" ->
            "main" \in DOMAIN r.refs /\ r.worktree = r.refs[r.head]
      [] argv[2] = "checkout" /\ argv[3] = "-b" ->
            argv[4] \notin DOMAIN r.refs
      [] argv[2] = "rm" ->
            /\ Len(argv) > 3
            /\ \A i \in 4..Len(argv) : Matches(r.worktree, argv[i])
      [] argv[2] = "commit" -> r.worktree # r.refs[r.head]
      [] argv[2] = "tag" -> argv[3] \notin DOMAIN r.tags
      [] argv[2] = "push" ->
            argv[4] \in (DOMAIN r.refs) \cup (DOMAIN r.tags)

\* the repository after the command has been carried out
GitApply(r, argv) ==
    CASE argv[2] = "checkout" /\ argv[3] = "main" ->
            [r EXCEPT !.head = "main", !.worktree = r.refs["main"]]
      [] argv[2] = "checkout" /\ argv[3] = "-b" ->
            [r EXCEPT !.head = argv[4],
                      !.refs = (argv[4] :> r.refs[r.head]) @@ r.refs,
                      !.base = (argv[4] :> r.head) @@ r.base]
      [] argv[2] = "rm" ->
            [r EXCEPT !.worktree = Removed(r.worktree, SubSeq(argv, 4, Len(argv)))]
      [] argv[2] = "commit" ->
            [r EXCEPT !.refs = (r.head :> r.worktree) @@ r.refs]
      [] argv[2] = "tag" ->
            [r EXCEPT !.tags = (argv[3] :> r.refs[r.head]) @@ r.tags]
      [] argv[2] = "push" ->
            [r EXCEPT !.remote =
                (argv[4] :> (IF argv[4] \in DOMAIN r.refs
                             THEN r.refs[argv[4]] ELSE r.tags[argv[4]]))
                @@ r.remote]

\* result.returncode of subprocess.run: an exit status, or -N when the
\* child was terminated by signal N
ReturnCodes == {-9, 0, 1}

\* safe_run raises when this holds of the return code
safe_run_raises(rc) == rc > 0

(***************************************************************************)
(* Inputs: the study, the release tag, the two QC tables, and the files    *)
(* tracked on main in each dataset.                                        *)
(***************************************************************************)
ReleaseTag == "0.1"

Determinations == {"Pass", "Artifact", "Fail"}

T1Row(p, s, d) ==
    [participant_id |-> p, session_id |-> s, qc_determination |-> d]

BoldRow(p, s, task, run, acq, ex) ==
    [participant_id |-> p, session_id |-> s, task |-> task, run |-> run,
     acq |-> acq, fmriExclude |-> ex]

T1TsvColumns == {"participant_id", "session_id", "qc_determination"}
BoldTsvColumns == {"participant_id", "session_id", "task", "run", "acq",
                   "fmriExclude"}

Tsv(columns, rows) ==
    [cols |-> columns,
     rows |-> [i \in 1..Len(rows) |-> [c \in columns |-> rows[i][c]]]]

ValidT1Rows == {T1Row("01", s, d) : s \in {"1", "2"}, d \in Determinations}

ValidT1Tsvs ==
    {Tsv(T1TsvColumns, rows) :
        rows \in UNION {[1..n -> ValidT1Rows] : n \in 0..MaxT1Rows}}

BadT1Tsvs ==
    {Tsv(T1TsvColumns, <<T1Row("sub-01", "1", "Fail")>>),
     Tsv(T1TsvColumns, <<T1Row("01", "1", "Fail"), T1Row("01", "ses-2", "Pass")>>),
     Tsv({"participant_id", "session_id"}, <<T1Row("01", "1", "Fail")>>),
     Tsv({"participant_id", "qc_determination"}, <<T1Row("01", "1", "Fail")>>)}

DefaultT1Tsvs ==
    {Tsv(T1TsvColumns, <<T1Row("01", "1", "Fail")>>),
     Tsv(T1TsvColumns, <<T1Row("01", "2", "Artifact")>>)}

EmptyBoldTsv == Tsv(BoldTsvColumns, <<>>)

BoldTsvs ==
    {Tsv(BoldTsvColumns, <<BoldRow("01", "1", "rest", "1", "", 1)>>),
     Tsv(BoldTsvColumns, <<BoldRow("01", "1", "rest", "1", "", 0)>>),
     Tsv(BoldTsvColumns, <<BoldRow("01", "1", "rest", "10", "", 1)>>),
     Tsv(BoldTsvColumns, <<BoldRow("01", "1", "", "", "", 1)>>),
     Tsv(BoldTsvColumns, <<BoldRow("01", "2", "rest", "1", "", 1)>>),
     Tsv(BoldTsvColumns, <<BoldRow("01", "1", "rest", "1", "", 1),
                           BoldRow("01", "1", "rest", "10", "", 1)>>),
     Tsv(BoldTsvColumns, <<BoldRow("01", "1", "rest", "1", "mb", 1)>>),
     Tsv(BoldTsvColumns, <<BoldRow("01", "1", "NA", "10", "", 1)>>),
     Tsv(BoldTsvColumns, <<BoldRow("01", "1", "", "", "mb", 1)>>),
     Tsv(BoldTsvColumns, <<BoldRow("01", "1", "task-rest", "1", "", 1)>>),
     Tsv(BoldTsvColumns \ {"fmriExclude"},
         <<BoldRow("01", "1", "rest", "1", "", 1)>>),
     Tsv(BoldTsvColumns \ {"acq"},
         <<BoldRow("01", "1", "rest", "1", "", 1)>>)}

Inputs ==
    {<<st, t1, EmptyBoldTsv>> : st \in Studies, t1 \in ValidT1Tsvs \cup BadT1Tsvs}
    \cup {<<st, t1, b>> : st \in Studies, t1 \in DefaultT1Tsvs, b \in BoldTsvs}

\* the files tracked on main: one scanned session of participant 01, laid
\* out as the study lays its directories out
MainTree(study, dir) ==
    IF dir = FsDir
    THEN {FsDir \o <<"dataset_description.json">>,
          IF study \in {"BHRC", "NKI"}
          THEN FsDir \o <<"freesurfer", "sub-01_ses-1", "T1.mgz">>
          ELSE FsDir \o <<"freesurfer", "sub-01", "T1.mgz">>}
    ELSE {BoldDir \o <<"dataset_description.json">>,
          BoldDir \o <<"cpac_RBCv0", "sub-01", "ses-1", "func",
                       "sub-01_ses-1_task-rest_run-1_bold.nii.gz">>,
          BoldDir \o <<"cpac_RBCv0", "sub-01", "ses-1", "func",
                       "sub-01_ses-1_task-rest_run-10_bold.nii.gz">>}

InitRepo(study, dir) ==
    [head |-> "main",
     worktree |-> MainTree(study, dir),
     refs |-> ("main" :> MainTree(study, dir)),
     base |-> ("main" :> "main"),
     tags |-> <<>>,
     remote |-> <<>>]

(***************************************************************************)
(* The program state                                                       *)
(***************************************************************************)
VARIABLES
    study_name, t1_tsv, bold_tsv,   \* the command line and the files it names
    pc,                             \* position in __main__ / clean_dataset
    frames,                         \* result of get_things_to_delete
    data_dir,                       \* dataset of the current clean_dataset call
    branch,                         \* "warning", "artifact" or "pass"
    fail_dirs_to_delete, bold_files_to_delete, artifact_dirs_to_delete,
    chunks,                         \* batches safe_delete_batch has yet to run
    rm_for,                         \* which call of safe_delete_batch runs
    row_i,                          \* index of the next bold_fail row
    repo,                           \* the two repositories
    cmds,                           \* the commands handed to subprocess.run
    returncode,                     \* return code of the last command
    killed,                         \* number of commands ended by a signal
    failed_in,                      \* datasets where a command returned non-zero
    warnings,                       \* the calls of logging.warning
    rglobs,                         \* the calls of Path.rglob
    files_to_delete, batch_size, rm_calls,   \* safe_delete_batch on its own
    tsv_file, qc_result                      \* read_qc_tsv on its own

inputs == <<study_name, t1_tsv, bold_tsv>>
locals == <<fail_dirs_to_delete, bold_files_to_delete, artifact_dirs_to_delete,
            chunks, rm_for, row_i>>
git == <<repo, cmds, returncode, killed, failed_in>>
batch_vars == <<files_to_delete, batch_size, rm_calls>>
read_vars == <<tsv_file, qc_result>>
calls == <<warnings, rglobs>>
vars == <<inputs, pc, frames, data_dir, branch, locals, git, batch_vars,
          read_vars, calls>>

doing_bold == data_dir = BoldDir

\* the names of the artifact and of the pass branch exchanged
BranchPrefix_exchanged ==
    [warning |-> "warning-fail-", artifact |-> "complete-pass-",
     pass |-> "complete-artifact-"]

BranchPrefix == [warning |-> "warning-fail-", artifact |-> "complete-artifact-",
                 pass |-> "complete-pass-"]
BranchName(b) == BranchPrefix[b] \o ReleaseTag
TagName(b) == "release-" \o BranchName(b)

NoResult == [exc |-> "unset", df |-> [cols |-> {}, rows |-> <<>>]]

InitMain ==
    /\ pc = "start"
    /\ frames = NoFrames
    /\ data_dir = FsDir
    /\ branch = "warning"
    /\ fail_dirs_to_delete = <<>>
    /\ bold_files_to_delete = <<>>
    /\ artifact_dirs_to_delete = <<>>
    /\ chunks = <<>>
    /\ rm_for = "fail"
    /\ row_i = 1
    /\ cmds = <<>>
    /\ returncode = 0
    /\ killed = 0
    /\ failed_in = {}
    /\ warnings = <<>>
    /\ rglobs = <<>>

Init ==
    /\ \E inp \in Inputs :
          /\ study_name = inp[1]
          /\ t1_tsv = inp[2]
          /\ bold_tsv = inp[3]
    /\ repo = [d \in DataDirs |-> InitRepo(study_name, d)]
    /\ InitMain
    /\ files_to_delete = <<>>
    /\ batch_size = DefaultBatchSize
    /\ rm_calls = <<>>
    /\ tsv_file = t1_tsv
    /\ qc_result = NoResult

\* lines 295-297 of __main__
GetThingsToDelete ==
    /\ pc = "start"
    /\ frames' = get_things_to_delete(study_name, t1_tsv, bold_tsv)
    /\ pc' = IF frames'.exc = "none" THEN "checkout_main" ELSE "raised"
    /\ UNCHANGED <<inputs, data_dir, branch, locals, git, batch_vars, read_vars, calls>>

\* subprocess.run(cmd) in the current dataset, with return code rc; applied
\* says whether git carried the command out
Exec(argv, rc, applied) ==
    /\ rc = 0 => applied /\ GitOk(repo[data_dir], argv)
    /\ rc > 0 => ~applied
    /\ rc < 0 => killed < MaxKilled /\ (applied => GitOk(repo[data_dir], argv))
    /\ cmds' = Append(cmds, [cwd |-> data_dir, argv |-> argv,
                             head |-> repo[data_dir].head])
    /\ returncode' = rc
    /\ killed' = IF rc < 0 THEN killed + 1 ELSE killed
    /\ failed_in' = IF rc # 0 THEN failed_in \cup {data_dir} ELSE failed_in
    /\ repo' = IF applied
               THEN [repo EXCEPT ![data_dir] = GitApply(@, argv)]
               ELSE repo

\* safe_run(["git", "checkout", "main"])
CheckoutMain ==
    /\ pc = "checkout_main"
    /\ \E rc \in ReturnCodes, applied \in BOOLEAN :
          /\ Exec(<<"git", "checkout", "main">>, rc, applied)
          /\ pc' = IF safe_run_raises(rc) THEN "raised" ELSE "checkout_b"
    /\ UNCHANGED <<inputs, frames, data_dir, branch, locals, batch_vars,
                   read_vars, calls>>

\* the branch is created from main: `git checkout main` precedes the creation
CheckoutNewBranchFromMain ==
    /\ pc = "checkout_b"
    /\ \E rc \in ReturnCodes, applied \in BOOLEAN :
          LET argv == <<"git", "checkout", "-b", BranchName(branch)>>
              on_main == [repo[data_dir] EXCEPT
                             !.head = "main",
                             !.worktree = repo[data_dir].refs["main"]]
          IN  /\ rc = 0 => applied /\ GitOk(on_main, argv)
              /\ rc > 0 => ~applied
              /\ rc < 0 => killed < MaxKilled /\ (applied => GitOk(on_main, argv))
              /\ cmds' = Append(cmds, [cwd |-> data_dir, argv |-> argv,
                                       head |-> "main"])
              /\ returncode' = rc
              /\ killed' = IF rc < 0 THEN killed + 1 ELSE killed
              /\ failed_in' = IF rc # 0 THEN failed_in \cup {data_dir}
                              ELSE failed_in
              /\ repo' = IF applied
                         THEN [repo EXCEPT ![data_dir] = GitApply(on_main, argv)]
                         ELSE repo
              /\ pc' = IF safe_run_raises(rc) THEN "raised"
                       ELSE CASE branch = "warning" -> "commit"
                              [] branch = "artifact" -> "plan_fail"
                              [] branch = "pass" -> "plan_artifact"
    /\ UNCHANGED <<inputs, frames, data_dir, branch, locals, batch_vars,
                   read_vars, calls>>

\* safe_run(["git", "checkout", "-b", <branch>])
CheckoutNewBranch ==
    /\ pc = "checkout_b"
    /\ \E rc \in ReturnCodes, applied \in BOOLEAN :
          /\ Exec(<<"git", "checkout", "-b", BranchName(branch)>>, rc, applied)
          /\ pc' = IF safe_run_raises(rc) THEN "raised"
                   ELSE CASE branch = "warning" -> "commit"
                          [] branch = "artifact" -> "plan_fail"
                          [] branch = "pass" -> "plan_artifact"
    /\ UNCHANGED <<inputs, frames, data_dir, branch, locals, batch_vars,
                   read_vars, calls>>

\* lines 226-233: collect the Fail directories, enter safe_delete_batch
PlanFailDirs ==
    /\ pc = "plan_fail"
    /\ fail_dirs_to_delete' =
          DirsToDelete(study_name, data_dir, doing_bold,
                       repo[data_dir].worktree, frames.t1_fail)
    /\ chunks' = safe_delete_batch(fail_dirs_to_delete', DefaultBatchSize)
    /\ rm_for' = "fail"
    /\ pc' = IF chunks' = <<>> THEN "bold" ELSE "rm"
    /\ warnings' = warnings \o MissingWarnings(study_name, data_dir, doing_bold,
                                    repo[data_dir].worktree, frames.t1_fail)
    /\ UNCHANGED <<inputs, frames, data_dir, branch, bold_files_to_delete,
                   artifact_dirs_to_delete, row_i, git, batch_vars, read_vars,
                   rglobs>>

\* line 135: safe_run(["git", "rm", "-rf"] + chunk.tolist())
GitRm ==
    /\ pc = "rm"
    /\ \E rc \in ReturnCodes, applied \in BOOLEAN :
          /\ Exec(<<"git", "rm", "-rf">> \o Head(chunks), rc, applied)
          /\ IF safe_run_raises(rc)
             THEN pc' = "raised" /\ UNCHANGED chunks
             ELSE /\ chunks' = Tail(chunks)
                  /\ pc' = IF chunks' # <<>> THEN "rm"
                           ELSE IF rm_for = "artifact" THEN "commit" ELSE "bold"
    /\ UNCHANGED <<inputs, frames, data_dir, branch, fail_dirs_to_delete,
                   bold_files_to_delete, artifact_dirs_to_delete, rm_for,
                   row_i, batch_vars, read_vars, calls>>

\* the orders in which a directory scan can list a set of paths
Listings(S) ==
    {l \in [1..Cardinality(S) -> S] :
        \A i, j \in 1..Cardinality(S) : l[i] = l[j] => i = j}

\* lines 236-244: one iteration of the loop over bold_fail
BoldLoop ==
    /\ pc = "bold"
    /\ IF ~doing_bold \/ row_i > Len(frames.bold_fail)
       THEN /\ pc' = "commit"
            /\ UNCHANGED <<locals, calls>>
       ELSE LET row == frames.bold_fail[row_i]
                tree == repo[data_dir].worktree
                globbed == Exists(tree, BoldBaseDir(data_dir, row))
                found == delete_bold_files(data_dir, tree, row)
            IN  /\ row_i' = row_i + 1
                /\ \E listing \in Listings(found) :
                      LET relevant_bold_files ==
                              [i \in 1..Len(listing) |-> PathStr(listing[i])]
                      IN  /\ bold_files_to_delete' =
                                bold_files_to_delete \o relevant_bold_files
                          /\ chunks' = safe_delete_batch(relevant_bold_files,
                                                         DefaultBatchSize)
                /\ rm_for' = "bold"
                /\ pc' = IF found = {} THEN "bold" ELSE "rm"
                /\ rglobs' = IF globbed
                             THEN Append(rglobs,
                                     [base_dir |-> PathStr(BoldBaseDir(data_dir, row)),
                                      search |-> BoldSearch(row), row |-> row_i])
                             ELSE rglobs
                /\ warnings' = IF globbed /\ found = {}
                               THEN Append(warnings, Warn("no files found", "", row_i))
                               ELSE warnings
                /\ UNCHANGED <<fail_dirs_to_delete, artifact_dirs_to_delete>>
    /\ UNCHANGED <<inputs, frames, data_dir, branch, git, batch_vars, read_vars>>

\* do_commit that is true for every branch that has a deletion step
do_commit_unconditional == branch # "warning"

\* do_commit as clean_dataset passes it to commit_and_push
do_commit ==
    CASE branch = "warning" -> FALSE
      [] branch = "artifact" ->
            Len(fail_dirs_to_delete \o bold_files_to_delete) > 0
      [] branch = "pass" -> Len(artifact_dirs_to_delete) > 0

CommitMsg == [warning |-> "update warning branch",
              artifact |-> "remove qc-fail sessions",
              pass |-> "remove qc-artifact sessions"]

\* lines 215-216: if do_commit: safe_run(["git", "commit", "-m", msg])
Commit ==
    /\ pc = "commit"
    /\ IF do_commit
       THEN \E rc \in ReturnCodes, applied \in BOOLEAN :
               /\ Exec(<<"git", "commit", "-m",
                         "'" \o CommitMsg[branch] \o "'">>, rc, applied)
               /\ pc' = IF safe_run_raises(rc) THEN "raised" ELSE "tag"
       ELSE pc' = "tag" /\ UNCHANGED git
    /\ UNCHANGED <<inputs, frames, data_dir, branch, locals, batch_vars,
                   read_vars, calls>>

\* line 217: safe_run(["git", "tag", tagname])
Tag ==
    /\ pc = "tag"
    /\ \E rc \in ReturnCodes, applied \in BOOLEAN :
          /\ Exec(<<"git", "tag", TagName(branch)>>, rc, applied)
          /\ pc' = IF safe_run_raises(rc) THEN "raised" ELSE "push_branch"
    /\ UNCHANGED <<inputs, frames, data_dir, branch, locals, batch_vars,
                   read_vars, calls>>

\* line 218: safe_run(["git", "push", "origin", branchname])
PushBranch ==
    /\ pc = "push_branch"
    /\ \E rc \in ReturnCodes, applied \in BOOLEAN :
          /\ Exec(<<"git", "push", "origin", BranchName(branch)>>, rc, applied)
          /\ pc' = IF safe_run_raises(rc) THEN "raised" ELSE "push_tag"
    /\ UNCHANGED <<inputs, frames, data_dir, branch, locals, batch_vars,
                   read_vars, calls>>

\* line 219: safe_run(["git", "push", "origin", tagname]); then the next
\* branch, the next dataset (lines 303-305), or the end of the program
PushTag ==
    /\ pc = "push_tag"
    /\ \E rc \in ReturnCodes, applied \in BOOLEAN :
          /\ Exec(<<"git", "push", "origin", TagName(branch)>>, rc, applied)
          /\ IF safe_run_raises(rc)
             THEN pc' = "raised" /\ UNCHANGED <<data_dir, branch, locals>>
             ELSE CASE branch = "warning" ->
                        /\ branch' = "artifact"
                        /\ pc' = "checkout_b"
                        /\ UNCHANGED <<data_dir, locals>>
                    [] branch = "artifact" ->
                        /\ branch' = "pass"
                        /\ pc' = "checkout_b"
                        /\ UNCHANGED <<data_dir, locals>>
                    [] branch = "pass" /\ data_dir = FsDir ->
                        /\ data_dir' = BoldDir
                        /\ branch' = "warning"
                        /\ pc' = "checkout_main"
                        /\ fail_dirs_to_delete' = <<>>
                        /\ bold_files_to_delete' = <<>>
                        /\ artifact_dirs_to_delete' = <<>>
                        /\ chunks' = <<>>
                        /\ rm_for' = "fail"
                        /\ row_i' = 1
                    [] branch = "pass" /\ data_dir = BoldDir ->
                        /\ pc' = "done"
                        /\ UNCHANGED <<data_dir, branch, locals>>
    /\ UNCHANGED <<inputs, frames, batch_vars, read_vars, calls>>

\* lines 255-261: collect the Artifact directories, enter safe_delete_batch
PlanArtifactDirs ==
    /\ pc = "plan_artifact"
    /\ artifact_dirs_to_delete' =
          DirsToDelete(study_name, data_dir, doing_bold,
                       repo[data_dir].worktree, frames.t1_artifact)
    /\ chunks' = safe_delete_batch(artifact_dirs_to_delete', DefaultBatchSize)
    /\ rm_for' = "artifact"
    /\ pc' = IF chunks' = <<>> THEN "commit" ELSE "rm"
    /\ warnings' = warnings \o MissingWarnings(study_name, data_dir, doing_bold,
                                    repo[data_dir].worktree, frames.t1_artifact)
    /\ UNCHANGED <<inputs, frames, data_dir, branch, fail_dirs_to_delete,
                   bold_files_to_delete, row_i, git, batch_vars, read_vars,
                   rglobs>>

Next ==
    \/ GetThingsToDelete
    \/ CheckoutMain
    \/ CheckoutNewBranch
    \/ PlanFailDirs
    \/ GitRm
    \/ BoldLoop
    \/ Commit
    \/ Tag
    \/ PushBranch
    \/ PushTag
    \/ PlanArtifactDirs

Spec == Init /\ [][Next]_vars

(***************************************************************************)
(* safe_delete_batch on its own: any list of paths, any batch size         *)
(***************************************************************************)
PathNames == {"/fs/a", "/fs/b"}

InitBatch ==
    /\ study_name = "NKI"
    /\ t1_tsv = Tsv(T1TsvColumns, <<>>)
    /\ bold_tsv = EmptyBoldTsv
    /\ repo = [d \in DataDirs |-> InitRepo(study_name, d)]
    /\ InitMain
    /\ tsv_file = t1_tsv
    /\ qc_result = NoResult
    /\ files_to_delete \in UNION {[1..n -> PathNames] : n \in 0..MaxLen}
    /\ batch_size \in 1..MaxCap
    /\ rm_calls = <<>>

\* lines 127-133: return early, or split the list into chunks
BatchSplit ==
    /\ pc = "start"
    /\ chunks' = safe_delete_batch(files_to_delete, batch_size)
    /\ pc' = IF chunks' = <<>> THEN "done" ELSE "rm"
    /\ UNCHANGED <<inputs, frames, data_dir, branch, fail_dirs_to_delete,
                   bold_files_to_delete, artifact_dirs_to_delete, rm_for,
                   row_i, git, batch_vars, read_vars, calls>>

\* lines 134-135: safe_run(["git", "rm", "-rf"] + chunk.tolist())
BatchGitRm ==
    /\ pc = "rm"
    /\ \E rc \in ReturnCodes :
          /\ returncode' = rc
          /\ rm_calls' = Append(rm_calls, Head(chunks))
          /\ failed_in' = IF rc # 0 THEN failed_in \cup {data_dir} ELSE failed_in
          /\ cmds' = Append(cmds, [cwd |-> data_dir,
                                   argv |-> <<"git", "rm", "-rf">> \o Head(chunks),
                                   head |-> repo[data_dir].head])
          /\ IF safe_run_raises(rc)
             THEN pc' = "raised" /\ UNCHANGED chunks
             ELSE /\ chunks' = Tail(chunks)
                  /\ pc' = IF chunks' = <<>> THEN "done" ELSE "rm"
    /\ UNCHANGED <<inputs, frames, data_dir, branch, fail_dirs_to_delete,
                   bold_files_to_delete, artifact_dirs_to_delete, rm_for,
                   row_i, repo, killed, files_to_delete, batch_size, read_vars, calls>>

NextBatch == BatchSplit \/ BatchGitRm

SpecBatch == InitBatch /\ [][NextBatch]_vars

(***************************************************************************)
(* read_qc_tsv on its own: tables with and without each column, with and   *)
(* without prefixed or missing cells                                       *)
(***************************************************************************)
MaxReadRows == 2

QcRow(p, s, task, run, acq) ==
    [participant_id |-> p, session_id |-> s, task |-> task, run |-> run,
     acq |-> acq, qc_determination |-> "Pass"]

QcRows ==
    {QcRow("01", "1", "rest", "1", "a"),
     QcRow("sub-02", "1", "rest", "1", "a"),
     QcRow("02", "ses-1", "rest", "1", "a"),
     QcRow("03", "1", "task-rest", "1", "a"),
     QcRow("03", "2", "rest", "run-1", "a"),
     QcRow("04", "1", "rest", "1", "acq-a"),
     QcRow("NA", "", "", "", "")}

QcColumnSets ==
    {m \cup o : m \in {{"participant_id", "session_id", "qc_determination"},
                       {"participant_id", "qc_determination"},
                       {"session_id", "qc_determination"}},
                o \in SUBSET {"task", "run", "acq"}}

QcTsvs ==
    {Tsv(c, rows) : c \in QcColumnSets,
                    rows \in UNION {[1..n -> QcRows] : n \in 0..MaxReadRows}}

InitRead ==
    /\ study_name = "NKI"
    /\ t1_tsv = Tsv(T1TsvColumns, <<>>)
    /\ bold_tsv = EmptyBoldTsv
    /\ repo = [d \in DataDirs |-> InitRepo(study_name, d)]
    /\ InitMain
    /\ files_to_delete = <<>>
    /\ batch_size = DefaultBatchSize
    /\ rm_calls = <<>>
    /\ tsv_file \in QcTsvs
    /\ qc_result = NoResult

\* one call of read_qc_tsv
ReadQcTsv ==
    /\ pc = "start"
    /\ qc_result' = read_qc_tsv(tsv_file)
    /\ pc' = IF qc_result'.exc = "none" THEN "done" ELSE "raised"
    /\ UNCHANGED <<inputs, frames, data_dir, branch, locals, git, batch_vars,
                   tsv_file, calls>>

NextRead == ReadQcTsv

SpecRead == InitRead /\ [][NextRead]_vars

(***************************************************************************)
(* Properties                                                              *)
(***************************************************************************)
IsGit(c, verb) == c.argv[2] = verb

\* C3: every command whose return code is not zero aborts the run: after a
\* command that returned a non-zero code the program is in the raised state
C3_NonZeroStatusAborts ==
    (cmds # <<>> /\ returncode # 0) => pc = "raised"

\* C5: the path lists of the `git rm` calls of safe_delete_batch,
\* concatenated in call order, are the input list (a prefix of it while the
\* calls are under way or after one has failed), and no call carries more
\* than batch_size paths
C5_BatchesPreservePlan ==
    /\ \A i \in 1..Len(rm_calls) : Len(rm_calls[i]) <= batch_size
    /\ IsPrefix(Concat(rm_calls), files_to_delete)
    /\ pc = "done" => Concat(rm_calls) = files_to_delete

C5_Witness ==
    /\ pc = "done"
    /\ Len(rm_calls) >= 2
    /\ Len(files_to_delete) > batch_size
    /\ Len(files_to_delete) % batch_size # 0
    /\ Range(files_to_delete) = PathNames

CeilDiv(n, k) == (n + k - 1) \div k

\* C6: for a non-empty list of n paths safe_delete_batch issues exactly
\* ceil(n / batch_size) `git rm` calls
C6_MinimalBatchCount ==
    (pc = "done" /\ files_to_delete # <<>>) =>
        Len(rm_calls) = CeilDiv(Len(files_to_delete), batch_size)

\* some cell of a present column carries the prefix
Prefixed(tsv, col, prefix) ==
    /\ col \in tsv.cols
    /\ \E i \in 1..Len(tsv.rows) : StartsWith(tsv.rows[i][col], prefix)

HasPrefixedValue(tsv) ==
    \/ Prefixed(tsv, "participant_id", "sub-")
    \/ Prefixed(tsv, "session_id", "ses-")
    \/ Prefixed(tsv, "acq", "acq-")
    \/ Prefixed(tsv, "run", "run-")
    \/ Prefixed(tsv, "task", "task-")

Rejected(tsv, required) ==
    ~(required \subseteq tsv.cols) \/ HasPrefixedValue(tsv)

SomeTableRejected ==
    \/ Rejected(t1_tsv, {"participant_id", "session_id", "qc_determination"})
    \/ Rejected(bold_tsv, {"participant_id", "session_id", "fmriExclude"})

\* C9: when the structural or the functional QC table is rejected (a
\* prefixed identifier, a missing required column), no git command is ever
\* issued and both repositories stay as they were
C9_ValidationPrecedesGit ==
    SomeTableRejected =>
        /\ cmds = <<>>
        /\ repo = [d \in DataDirs |-> InitRepo(study_name, d)]
        /\ pc \in {"start", "raised"}

C9_Witness ==
    /\ pc = "raised"
    /\ cmds = <<>>
    /\ ~Rejected(t1_tsv, {"participant_id", "session_id", "qc_determination"})
    /\ Prefixed(bold_tsv, "task", "task-")

\* the rows of the returned table are the rows of the file, in file order,
\* cell texts that denote a missing value read as missing
RowsInFileOrder(tsv, df) ==
    /\ df.cols = tsv.cols
    /\ Len(df.rows) = Len(tsv.rows)
    /\ \A i \in 1..Len(tsv.rows) : \A c \in tsv.cols :
          df.rows[i][c] = (IF tsv.rows[i][c] \in NaValues /\ c # "fmriExclude"
                           THEN NaN ELSE tsv.rows[i][c])

\* C10 as stated: read_qc_tsv fails if and only if some value of
\* participant_id, session_id or a present optional column carries its
\* prefix, and an accepted table is returned with its rows in file order
C10_FailsIffPrefixed ==
    pc # "start" =>
        /\ (qc_result.exc # "none") <=> HasPrefixedValue(tsv_file)
        /\ qc_result.exc = "none" => RowsInFileOrder(tsv_file, qc_result.df)

\* C10 amended: for a table that has the participant_id and session_id
\* columns, read_qc_tsv raises its validation error if and only if some
\* value carries its prefix and otherwise returns the rows in file order;
\* a table that lacks one of the two columns always fails
C10_FailsIffPrefixedGivenColumns ==
    pc # "start" =>
        /\ {"participant_id", "session_id"} \subseteq tsv_file.cols =>
              /\ qc_result.exc \in {"none", "Exception"}
              /\ (qc_result.exc = "Exception") <=> HasPrefixedValue(tsv_file)
        /\ ~({"participant_id", "session_id"} \subseteq tsv_file.cols) =>
              qc_result.exc \in {"KeyError", "Exception"}
        /\ qc_result.exc = "none" => RowsInFileOrder(tsv_file, qc_result.df)

C10_Witness ==
    /\ pc = "done"
    /\ Len(tsv_file.rows) = 2
    /\ tsv_file.rows[1] # tsv_file.rows[2]
    /\ {"task", "run", "acq"} \subseteq tsv_file.cols
    /\ qc_result.df.rows[2]["participant_id"] = NaN

(***************************************************************************)
(* Properties of the orchestration                                         *)
(***************************************************************************)
Warning == BranchName("warning")
Artifact == BranchName("artifact")
Pass == BranchName("pass")

IsCheckoutB(c) == Len(c.argv) = 4 /\ c.argv[2] = "checkout" /\ c.argv[3] = "-b"

\* C1 as stated: whenever `git checkout -b` is issued the checked-out ref
\* is main, and every branch has been created from main
C1_EachBranchFromMain ==
    /\ \A i \in 1..Len(cmds) : IsCheckoutB(cmds[i]) => cmds[i].head = "main"
    /\ \A d \in DataDirs : \A n \in DOMAIN repo[d].base :
          repo[d].base[n] = "main"

\* the branch that is checked out when branch n is created
Previous(r, n) ==
    IF n = Pass /\ Artifact \in DOMAIN r.refs THEN Artifact
    ELSE IF n \in {Pass, Artifact} /\ Warning \in DOMAIN r.refs THEN Warning
    ELSE "main"

\* C1 amended: only the first branch is created from main; each later
\* branch is created while the branch created before it is checked out, and
\* its tree holds no file that the branch it was created from does not hold
C1_EachBranchFromPrevious ==
    \A d \in DataDirs : \A n \in DOMAIN repo[d].base :
        /\ repo[d].base[n] = (IF n = "main" THEN "main" ELSE Previous(repo[d], n))
        /\ repo[d].refs[n] \subseteq repo[d].refs[repo[d].base[n]]

C1_Witness ==
    /\ killed = 0
    /\ Pass \in DOMAIN repo[FsDir].refs
    /\ repo[FsDir].base[Pass] = Artifact
    /\ repo[FsDir].base[Artifact] = Warning
    /\ repo[FsDir].refs[Artifact] # repo[FsDir].refs["main"]
    /\ repo[FsDir].refs[Pass] = repo[FsDir].refs[Artifact]

\* the structural QC records as get_things_to_delete holds them
QcRecords ==
    IF study_name \in DOMAIN NO_SES_STUDIES
    THEN SetColumn(ReadCsv(t1_tsv), "session_id", NO_SES_STUDIES[study_name]).rows
    ELSE ReadCsv(t1_tsv).rows

RecordsWith(dets) ==
    {QcRecords[i] : i \in {j \in 1..Len(QcRecords) :
                              QcRecords[j]["qc_determination"] \in dets}}

RecordDir(d, r) ==
    base_dir_of(study_name, d, d = BoldDir, r["participant_id"], r["session_id"])

CompletedWithoutError == pc = "done" /\ killed = 0

\* C2 as stated: after a run without error the artifact branch holds no
\* directory of a Fail record and keeps the directories of Artifact and
\* Pass records; the pass branch holds no directory of a Fail or Artifact
\* record
C2_CuratedBranches ==
    CompletedWithoutError =>
        \A d \in DataDirs :
            /\ {Artifact, Pass} \subseteq DOMAIN repo[d].refs
            /\ \A r \in RecordsWith({"Fail"}) :
                  ~Exists(repo[d].refs[Artifact], RecordDir(d, r))
            /\ \A r \in RecordsWith({"Artifact", "Pass"}) :
                  Exists(MainTree(study_name, d), RecordDir(d, r))
                      => Exists(repo[d].refs[Artifact], RecordDir(d, r))
            /\ \A r \in RecordsWith({"Fail", "Artifact"}) :
                  ~Exists(repo[d].refs[Pass], RecordDir(d, r))

\* C2 amended: after a run without error the artifact branch holds no
\* directory of a Fail record and keeps every file that is neither below
\* the directory of a Fail record nor removed as a functional exclusion;
\* the pass branch holds no directory of a Fail or Artifact record
C2_CuratedBranchesSharedDirs ==
    CompletedWithoutError =>
        \A d \in DataDirs :
            /\ {Artifact, Pass} \subseteq DOMAIN repo[d].refs
            /\ \A r \in RecordsWith({"Fail"}) :
                  ~Exists(repo[d].refs[Artifact], RecordDir(d, r))
            /\ \A f \in MainTree(study_name, d) :
                  (/\ \A r \in RecordsWith({"Fail"}) : ~IsPrefix(RecordDir(d, r), f)
                   /\ d = BoldDir => f \in Removed({f}, bold_files_to_delete))
                      => f \in repo[d].refs[Artifact]
            /\ \A r \in RecordsWith({"Fail", "Artifact"}) :
                  ~Exists(repo[d].refs[Pass], RecordDir(d, r))

C2_Witness ==
    /\ CompletedWithoutError
    /\ \E r1 \in RecordsWith({"Fail"}), r2 \in RecordsWith({"Pass"}) :
          /\ RecordDir(FsDir, r1) = RecordDir(FsDir, r2)
          /\ Exists(MainTree(study_name, FsDir), RecordDir(FsDir, r2))
          /\ ~Exists(repo[FsDir].refs[Artifact], RecordDir(FsDir, r2))
          /\ ~Exists(repo[FsDir].refs[Pass], RecordDir(FsDir, r1))

\* positions in the command log
Branches == {"warning", "artifact", "pass"}
At(d, argv) == {i \in 1..Len(cmds) : cmds[i].cwd = d /\ cmds[i].argv = argv}
CreateIdx(d, b) == At(d, <<"git", "checkout", "-b", BranchName(b)>>)
CommitIdx(d, b) ==
    At(d, <<"git", "commit", "-m", "'" \o CommitMsg[b] \o "'">>)
TagIdx(d, b) == At(d, <<"git", "tag", TagName(b)>>)
PushBranchIdx(d, b) == At(d, <<"git", "push", "origin", BranchName(b)>>)
PushTagIdx(d, b) == At(d, <<"git", "push", "origin", TagName(b)>>)
\* the `git rm` calls issued between the creation of b and the next creation
RmIdx(d, b) ==
    {i \in 1..Len(cmds) :
        /\ cmds[i].cwd = d
        /\ IsGit(cmds[i], "rm")
        /\ \E j \in CreateIdx(d, b) :
              /\ j < i
              /\ \A k \in j + 1..i - 1 : ~IsCheckoutB(cmds[k])}

Before(S, T) == \A i \in S : \A j \in T : i < j

NextBranch == [warning |-> "artifact", artifact |-> "pass", pass |-> "pass"]

\* C4: for each branch, by the time the tag is issued `git commit` has been
\* issued if and only if a path was handed to `git rm` on that branch (never
\* on the warning branch); the commit follows the removals and precedes the
\* tag, the tag precedes the push of the branch and that the push of the
\* tag; and whether or not the commit was skipped, the tag and both pushes
\* have been issued once the run has moved on to the next branch or ended
C4_CommitIffRemoved ==
    \A d \in DataDirs : \A b \in Branches :
        LET rm == RmIdx(d, b)
            commit == CommitIdx(d, b)
            tag == TagIdx(d, b)
            push_branch == PushBranchIdx(d, b)
            push_tag == PushTagIdx(d, b)
        IN  /\ tag # {} => (commit # {} <=> rm # {})
            /\ commit # {} => rm # {} /\ b # "warning"
            /\ Before(rm, commit)
            /\ Before(commit, tag)
            /\ Before(tag, push_branch)
            /\ Before(push_branch, push_tag)
            /\ push_tag # {} => push_branch # {}
            /\ push_branch # {} => tag # {}
            /\ (pc = "done" \/ (b # "pass" /\ CreateIdx(d, NextBranch[b]) # {}))
                  => push_tag # {}

C4_Witness ==
    /\ pc = "done"
    /\ CommitIdx(FsDir, "artifact") # {}
    /\ CommitIdx(FsDir, "pass") = {}
    /\ RmIdx(FsDir, "pass") = {}
    /\ PushTagIdx(FsDir, "pass") # {}
    /\ CommitIdx(BoldDir, "artifact") # {}

\* the directories of the records with determination det that exist in tree
ExistingDirs(det, tree) ==
    {PathStr(RecordDir(data_dir, r)) :
        r \in {q \in RecordsWith({det}) : Exists(tree, RecordDir(data_dir, q))}}

RecordDirIn(r, list) == PathStr(RecordDir(FsDir, r)) \in Range(list)

PassPlanned ==
    /\ data_dir = FsDir
    /\ branch = "pass"
    /\ pc \in {"rm", "commit", "tag", "push_branch", "push_tag"}

\* C7 as stated: once both lists of the structural dataset are built, a
\* record's directory is in the artifact-branch list if and only if the
\* record is Fail, in the pass-branch list if and only if it is Artifact,
\* and no directory is in both lists
C7_PlanIffDetermination ==
    PassPlanned =>
        /\ \A r \in RecordsWith(Determinations) :
              /\ RecordDirIn(r, fail_dirs_to_delete)
                    <=> r["qc_determination"] = "Fail"
              /\ RecordDirIn(r, artifact_dirs_to_delete)
                    <=> r["qc_determination"] = "Artifact"
        /\ Range(fail_dirs_to_delete) \cap Range(artifact_dirs_to_delete) = {}

\* C7 amended: a directory is in the artifact-branch list if and only if it
\* is the directory of some Fail record and exists when that list is built,
\* and in the pass-branch list if and only if it is the directory of some
\* Artifact record and exists when that list is built; a directory of the
\* artifact-branch list is in the pass-branch list only if it is still in
\* the working tree
C7_PlanIffDeterminationAndExists ==
    [][/\ pc = "plan_fail" =>
             Range(fail_dirs_to_delete')
                 = ExistingDirs("Fail", repo[data_dir].worktree)
       /\ pc = "plan_artifact" =>
             /\ Range(artifact_dirs_to_delete')
                   = ExistingDirs("Artifact", repo[data_dir].worktree)
             /\ \A p \in Range(artifact_dirs_to_delete')
                            \cap Range(fail_dirs_to_delete) :
                   Matches(repo[data_dir].worktree, p)]_vars

C7_Witness ==
    /\ PassPlanned
    /\ killed = 0
    /\ fail_dirs_to_delete # <<>>
    /\ \E r \in RecordsWith({"Fail"}) : ~RecordDirIn(r, fail_dirs_to_delete)

NoDuplicates(list) ==
    \A i, j \in 1..Len(list) : list[i] = list[j] => i = j

\* C8: the list of directories handed to safe_delete_batch for the artifact
\* branch, and the one for the pass branch, hold each path at most once
C8_NoPathTwice ==
    /\ NoDuplicates(fail_dirs_to_delete)
    /\ NoDuplicates(artifact_dirs_to_delete)


(***************************************************************************)
(* Properties of the resolution of records to paths and patterns           *)
(***************************************************************************)
T1Required == {"participant_id", "session_id", "qc_determination"}
BoldRequired == {"participant_id", "session_id", "fmriExclude"}
Optional == {"task", "acq", "run"}

Contains(s, sub) == FnMatch(s, "*" \o sub \o "*")

\* C11: when both tables have their required columns and no prefixed value,
\* get_things_to_delete raises nothing whichever of task, acq, run the
\* functional table lacks, and a column the table lacks adds no clause to
\* any pattern handed to rglob
C11_MissingOptionalTolerated ==
    (pc # "start" /\ ~Rejected(t1_tsv, T1Required)
                  /\ ~Rejected(bold_tsv, BoldRequired)) =>
        /\ frames.exc = "none"
        /\ \A i \in 1..Len(rglobs) : \A c \in Optional \ bold_tsv.cols :
              ~Contains(rglobs[i].search, c \o "-")
\* <root>/cpac_RBCv0/sub-<p>/ses-<s>
SessionNested(row) ==
    PathStr(BoldDir \o <<"cpac_RBCv0", "sub-" \o row["participant_id"],
                         "ses-" \o row["session_id"]>>)

SessionNestedDirs(rows) == {SessionNested(rows[i]) : i \in 1..Len(rows)}

\* C12: in the functional dataset every directory resolved for a record,
\* whether collected for removal, reported missing or searched with rglob,
\* is <root>/cpac_RBCv0/sub-<p>/ses-<s> of that record, for every study
C12_FunctionalDirSessionNested ==
    /\ doing_bold =>
          /\ Range(fail_dirs_to_delete) \subseteq SessionNestedDirs(frames.t1_fail)
          /\ Range(artifact_dirs_to_delete)
                \subseteq SessionNestedDirs(frames.t1_artifact)
    /\ \A i \in 1..Len(warnings) :
          (warnings[i].kind = "missing"
              /\ StartsWith(warnings[i].path, PathStr(BoldDir) \o "/"))
            => warnings[i].path \in SessionNestedDirs(frames.t1_fail)
                                    \cup SessionNestedDirs(frames.t1_artifact)
    /\ \A i \in 1..Len(rglobs) :
          rglobs[i].base_dir = SessionNested(frames.bold_fail[rglobs[i].row])
\* <root>/freesurfer/sub-<p>_ses-<s> for BHRC and NKI, <root>/freesurfer/sub-<p>
\* for CCNP, PNC and HBN
StructuralDir(row) ==
    "/fs/freesurfer/sub-" \o row["participant_id"]
        \o (IF study_name \in {"BHRC", "NKI"}
            THEN "_ses-" \o row["session_id"] ELSE "")

\* every row resolves to its structural directory: the directory is
\* collected when it is in the working tree and reported missing otherwise,
\* and nothing else is collected
ResolvedStructurally(rows, dirs, logged) ==
    /\ \A i \in 1..Len(rows) :
          IF Matches(repo[FsDir].worktree, StructuralDir(rows[i]))
          THEN StructuralDir(rows[i]) \in Range(dirs)
          ELSE Warn("missing", StructuralDir(rows[i]), 0) \in Range(logged)
    /\ Range(dirs) \subseteq {StructuralDir(rows[i]) : i \in 1..Len(rows)}
    /\ Len(dirs) + Len(logged) = Len(rows)

\* C13: in the structural dataset every Fail and every Artifact record
\* resolves to <root>/freesurfer/sub-<p>_ses-<s> for BHRC and NKI and to
\* <root>/freesurfer/sub-<p> for CCNP, PNC and HBN; rows that hold the same
\* record resolve to the same path
C13_StructuralDir ==
    [][/\ (pc = "plan_fail" /\ ~doing_bold) =>
             ResolvedStructurally(frames.t1_fail, fail_dirs_to_delete',
                 SubSeq(warnings', Len(warnings) + 1, Len(warnings')))
       /\ (pc = "plan_artifact" /\ ~doing_bold) =>
             ResolvedStructurally(frames.t1_artifact, artifact_dirs_to_delete',
                 SubSeq(warnings', Len(warnings) + 1, Len(warnings')))]_vars

C13_Witness ==
    /\ data_dir = FsDir
    /\ study_name = "HBN"
    /\ Len(frames.t1_fail) = 2
    /\ frames.t1_fail[1]["session_id"] # frames.t1_fail[2]["session_id"]
    /\ fail_dirs_to_delete = <<"/fs/freesurfer/sub-01", "/fs/freesurfer/sub-01">>
    /\ pc = "plan_artifact"
\* the clause of one entity: nothing for a missing or empty value
Clause(row, c) ==
    IF row[c] \in NaValues THEN "" ELSE c \o "-" \o row[c] \o "*"

ExpectedGlob(row, k) ==
    [base_dir |-> "/bold/cpac_RBCv0/sub-" \o row["participant_id"]
                     \o "/ses-" \o row["session_id"],
     search |-> "*" \o Clause(row, "task") \o Clause(row, "acq")
                    \o Clause(row, "run"),
     row |-> k]

\* C14: each functional-exclusion record whose session directory exists is
\* searched with exactly one pattern, `*` followed by the clauses of task,
\* acq and run, in that order, for the fields that have a value, the run
\* value as the table gives it, under cpac_RBCv0/sub-<p>/ses-<s>; a record
\* is never searched with a second pattern
C14_GlobPattern ==
    [][/\ (pc = "bold" /\ doing_bold /\ row_i <= Len(frames.bold_fail)) =>
             LET expected == ExpectedGlob(frames.bold_fail[row_i], row_i)
             IN  IF Matches(repo[BoldDir].worktree, expected.base_dir)
                 THEN rglobs' = Append(rglobs, expected)
                 ELSE rglobs' = rglobs
       /\ rglobs' # rglobs =>
             /\ pc = "bold"
             /\ \A i \in 1..Len(rglobs) : rglobs[i].row # row_i]_vars

C14_Witness ==
    /\ pc = "done"
    /\ \E i \in 1..Len(rglobs) :
          /\ rglobs[i].search = "*task-rest*acq-mb*run-1*"
          /\ rglobs[i].base_dir = "/bold/cpac_RBCv0/sub-01/ses-1"
\* the rows whose resolved directory is not in the working tree are each
\* reported by a warning, and their paths are not collected
MissingDropped(rows, dirs, logged) ==
    \A i \in 1..Len(rows) :
        LET base_dir == base_dir_of(study_name, data_dir, doing_bold,
                            rows[i]["participant_id"], rows[i]["session_id"])
        IN  ~Exists(repo[data_dir].worktree, base_dir) =>
                /\ Warn("missing", PathStr(base_dir), 0) \in Range(logged)
                /\ PathStr(base_dir) \notin Range(dirs)

\* C15: a record whose resolved directory does not exist when it is looked
\* up is dropped with a warning and without ending the run: the structural
\* records at both planning steps of either dataset, and the
\* functional-exclusion records in the loop over bold_fail, where nothing
\* is handed to `git rm` for the record and the loop goes on
C15_MissingDirWarned ==
    [][/\ pc = "plan_fail" =>
             /\ MissingDropped(frames.t1_fail, fail_dirs_to_delete',
                    SubSeq(warnings', Len(warnings) + 1, Len(warnings')))
             /\ pc' # "raised"
       /\ pc = "plan_artifact" =>
             /\ MissingDropped(frames.t1_artifact, artifact_dirs_to_delete',
                    SubSeq(warnings', Len(warnings) + 1, Len(warnings')))
             /\ pc' # "raised"
       /\ (/\ pc = "bold" /\ doing_bold /\ row_i <= Len(frames.bold_fail)
           /\ ~Exists(repo[data_dir].worktree,
                      BoldBaseDir(data_dir, frames.bold_fail[row_i]))) =>
             /\ warnings' = Append(warnings,
                    Warn("missing",
                         PathStr(BoldBaseDir(data_dir, frames.bold_fail[row_i])),
                         0))
             /\ chunks' = <<>>
             /\ pc' = "bold"]_vars

(***************************************************************************)
(* Properties of the order of the commands                                 *)
(***************************************************************************)
\* the place of a branch, or of its tag, in the order warning, artifact,
\* pass; 0 for main and for anything else
RefRank(ref) ==
    CASE ref \in {"warning-fail-" \o ReleaseTag,
                  "release-warning-fail-" \o ReleaseTag} -> 1
      [] ref \in {"complete-artifact-" \o ReleaseTag,
                  "release-complete-artifact-" \o ReleaseTag} -> 2
      [] ref \in {"complete-pass-" \o ReleaseTag,
                  "release-complete-pass-" \o ReleaseTag} -> 3
      [] OTHER -> 0

\* the branch a command names: 0 for `git rm`, `git commit` and the
\* checkout of main
CmdRank(c) ==
    IF IsCheckoutB(c) \/ IsGit(c, "push") THEN RefRank(c.argv[4])
    ELSE IF IsGit(c, "tag") THEN RefRank(c.argv[3])
    ELSE 0

EarlierIn(d) == {i \in 1..Len(cmds) : cmds[i].cwd = d}

\* C16: within a dataset each command issued belongs to the branch created
\* last or creates the next one: a command that names a branch names no
\* earlier branch than any command before it, a creation names a later
\* branch than every command before it, a tag or push names a branch
\* already created, `git rm` and `git commit` are issued only between the
\* creation of the artifact or pass branch and its tag, main is checked out
\* only as the first command, and the checked-out branch never goes back
C16_BranchByBranch ==
    [][cmds' # cmds =>
          LET c == cmds'[Len(cmds')]
              before == EarlierIn(c.cwd)
          IN  /\ cmds' = Append(cmds, c)
              /\ \A i \in before :
                    /\ CmdRank(c) > 0 => CmdRank(cmds[i]) <= CmdRank(c)
                    /\ IsCheckoutB(c) => CmdRank(cmds[i]) < CmdRank(c)
                    /\ RefRank(cmds[i].head) <= RefRank(c.head)
              /\ (CmdRank(c) > 0 /\ ~IsCheckoutB(c)) =>
                    \E i \in before : /\ IsCheckoutB(cmds[i])
                                       /\ CmdRank(cmds[i]) = CmdRank(c)
              /\ (IsGit(c, "rm") \/ IsGit(c, "commit")) =>
                    \E i \in before :
                        /\ IsCheckoutB(cmds[i])
                        /\ CmdRank(cmds[i]) >= 2
                        /\ \A j \in before : j > i => CmdRank(cmds[j]) = 0
              /\ (IsGit(c, "checkout") /\ ~IsCheckoutB(c)) => before = {}
              /\ \A d \in DataDirs :
                    RefRank(repo[d].head) <= RefRank(repo'[d].head)]_vars

C16_Witness ==
    /\ pc = "done"
    /\ killed = 0
    /\ \E i, j \in EarlierIn(BoldDir) :
          /\ i < j
          /\ IsGit(cmds[i], "rm") /\ RefRank(cmds[i].head) = 2
          /\ IsGit(cmds[j], "rm") /\ RefRank(cmds[j].head) = 3

\* C17: for a no-session study every record kept for path resolution, from
\* the structural and from the functional table, carries the fixed session
\* label of the study, and every directory searched for a
\* functional-exclusion record is the ses-<label> directory of the
\* participant
C17_SentinelSessionEverywhere ==
    study_name \in DOMAIN NO_SES_STUDIES =>
        LET label == NO_SES_STUDIES[study_name]
        IN  /\ \A rows \in {frames.t1_artifact, frames.t1_fail, frames.bold_fail} :
                  \A i \in 1..Len(rows) : rows[i]["session_id"] = label
            /\ \A i \in 1..Len(rglobs) :
                  rglobs[i].base_dir =
                      "/bold/cpac_RBCv0/sub-"
                          \o frames.bold_fail[rglobs[i].row]["participant_id"]
                          \o "/ses-" \o label

\* C18: every `git rm` call of safe_delete_batch carries at least one path,
\* every chunk still to be run holds at least one path, and for an empty
\* list no call is made
C18_NoEmptyGitRm ==
    /\ \A i \in 1..Len(rm_calls) : rm_calls[i] # <<>>
    /\ \A i \in 1..Len(chunks) : chunks[i] # <<>>
    /\ files_to_delete = <<>> => rm_calls = <<>>

(***************************************************************************)
(* The scan a removed file belongs to                                      *)
(***************************************************************************)
\* the pieces of s between the occurrences of the character ch
RECURSIVE Split(_, _)
Split(s, ch) ==
    LET at == {i \in 1..Len(s) : SubSeq(s, i, i) = ch}
    IN  IF at = {} THEN <<s>>
        ELSE LET k == CHOOSE i \in at : \A j \in at : i <= j
             IN  <<SubSeq(s, 1, k - 1)>> \o Split(SubSeq(s, k + 1, Len(s)), ch)

BaseName(path) == LET parts == Split(path, "/") IN parts[Len(parts)]

\* the value of entity c in a BIDS file name (sub-01_task-rest_run-1_bold...),
\* "" when the name has no such entity
Entity(name, c) ==
    LET parts == Split(name, "_")
        at == {i \in 1..Len(parts) : StartsWith(parts[i], c \o "-")}
    IN  IF at = {} THEN ""
        ELSE LET part == parts[CHOOSE i \in at : TRUE]
             IN  SubSeq(part, Len(c) + 2, Len(part))

HasValue(row, c) == row[c] \notin NaValues

\* the path lies in the session directory of the record, the record names
\* a scan, and the file has the record's value for each entity it names
OfExcludedScan(path, row) ==
    /\ StartsWith(path, "/bold/cpac_RBCv0/sub-" \o row["participant_id"]
                           \o "/ses-" \o row["session_id"] \o "/")
    /\ \E c \in Optional : HasValue(row, c)
    /\ \A c \in Optional :
          HasValue(row, c) => Entity(BaseName(path), c) = row[c]

\* C19: every path handed to `git rm` for a functional-exclusion record is
\* a file of the excluded scan: it lies in the record's session directory
\* and its task, acq and run values equal those the record has; for a
\* record with none of the three nothing is removed
C19_RemovalConfinedToScan ==
    (pc = "rm" /\ rm_for = "bold") =>
        \A i \in 1..Len(chunks) : \A j \in 1..Len(chunks[i]) :
            OfExcludedScan(chunks[i][j], frames.bold_fail[row_i - 1])

ReleaseRefs == {BranchName(b) : b \in Branches} \cup {TagName(b) : b \in Branches}

FunctionalTouched ==
    \/ \E i \in 1..Len(cmds) : cmds[i].cwd = BoldDir
    \/ repo[BoldDir] # InitRepo(study_name, BoldDir)

\* C20: a git command is issued in the functional dataset only after the
\* three branches and their tags have been pushed in the structural
\* dataset, and when a command of the structural run has failed the
\* functional dataset has no command issued in it and is as it was
C20_StructuralBeforeFunctional ==
    /\ FunctionalTouched => ReleaseRefs \subseteq DOMAIN repo[FsDir].remote
    /\ FsDir \in failed_in => ~FunctionalTouched
====
